---- MODULE Spec2Model ----
(***************************************************************************)
(* Model of the EPWD backend (src/server.js): the document-field           *)
(* extraction helper extractSilayIdDetails and the POST /api/scan handler  *)
(* that calls it.  Strings are sequences of one-character strings, so the  *)
(* regular expressions of the source are evaluated character by character. *)
(***************************************************************************)
EXTENDS Naturals, Sequences, FiniteSets, TLC

VARIABLES pc, rawText, isSilay, id, lines, lineIdx,
          firstName, middleName, lastName, idDetails, storeQueries, response

vars == <<pc, rawText, isSilay, id, lines, lineIdx,
          firstName, middleName, lastName, idDetails, storeQueries, response>>

names == <<firstName, middleName, lastName>>

-----------------------------------------------------------------------------
(* Characters *)

UpperLetters == <<"A", "B", "C", "D", "E", "F", "G", "H", "I", "J", "K", "L", "M", "N", "O", "P", "Q", "R", "S", "T", "U", "V", "W", "X", "Y", "Z">>

LowerLetters == <<"a", "b", "c", "d", "e", "f", "g", "h", "i", "j", "k", "l", "m", "n", "o", "p", "q", "r", "s", "t", "u", "v", "w", "x", "y", "z">>

Digits == {"0", "1", "2", "3", "4", "5", "6", "7", "8", "9"}

Range(s) == {s[i] : i \in 1..Len(s)}

\* \w of a JavaScript regular expression: [A-Za-z0-9_]
WordChars == Range(UpperLetters) \cup Range(LowerLetters) \cup Digits \cup {"_"}

\* \s of a JavaScript regular expression, and what String.prototype.trim strips
WhiteSpace == {" ", "\t", "\r", "\n"}

\* the characters "." does not match (no s flag)
LineTerminators == {"\n", "\r"}

\* String.prototype.toLowerCase, one character
LowerChar(c) ==
  IF \E i \in 1..Len(UpperLetters) : UpperLetters[i] = c
  THEN LowerLetters[CHOOSE i \in 1..Len(UpperLetters) : UpperLetters[i] = c]
  ELSE c

toLowerCase(s) == [i \in 1..Len(s) |-> LowerChar(s[i])]

\* String.prototype.includes
includes(s, sub) ==
  \E i \in 0..Len(s) : i + Len(sub) <= Len(s) /\ SubSeq(s, i + 1, i + Len(sub)) = sub

\* the length of the run of characters of cs that starts at position pos of s
RECURSIVE RunLength(_, _, _)
RunLength(s, pos, cs) ==
  IF pos <= Len(s) /\ s[pos] \in cs THEN 1 + RunLength(s, pos + 1, cs) ELSE 0

\* String.prototype.trim
RECURSIVE TrimEnd(_)
TrimEnd(s) ==
  IF s # <<>> /\ s[Len(s)] \in WhiteSpace THEN TrimEnd(SubSeq(s, 1, Len(s) - 1)) ELSE s

trim(s) == TrimEnd(SubSeq(s, RunLength(s, 1, WhiteSpace) + 1, Len(s)))

\* String.prototype.split with a separator that is a set of characters, taken
\* one character at a time ("\n") or as a maximal run (/\s+/)
RECURSIVE split(_, _, _)
split(s, cs, runs) ==
  IF \A i \in 1..Len(s) : s[i] \notin cs
  THEN <<s>>
  ELSE LET i == CHOOSE j \in 1..Len(s) : s[j] \in cs /\ \A k \in 1..(j - 1) : s[k] \notin cs
           n == IF runs THEN RunLength(s, i, cs) ELSE 1
       IN  <<SubSeq(s, 1, i - 1)>> \o split(SubSeq(s, i + n, Len(s)), cs, runs)

-----------------------------------------------------------------------------
(* The identifier pattern /\b\d{13}\b/ *)

IdLength == 13

IsWordAt(s, p) == p >= 1 /\ p <= Len(s) /\ s[p] \in WordChars

\* \b between positions p - 1 and p
WordBoundary(s, p) == IsWordAt(s, p - 1) # IsWordAt(s, p)

IdPatternAtNoTrailingBoundary(s, p) ==
  /\ WordBoundary(s, p)
  /\ p + IdLength - 1 <= Len(s)
  /\ \A i \in p..(p + IdLength - 1) : s[i] \in Digits

IdPatternAt(s, p) ==
  /\ WordBoundary(s, p)
  /\ p + IdLength - 1 <= Len(s)
  /\ \A i \in p..(p + IdLength - 1) : s[i] \in Digits
  /\ WordBoundary(s, p + IdLength)

\* rawText.match(idPattern): the leftmost match, as a sequence of 0 or 1 strings
matchIdPattern(s) ==
  IF \E p \in 1..Len(s) : IdPatternAt(s, p)
  THEN LET p == CHOOSE q \in 1..Len(s) :
                  IdPatternAt(s, q) /\ \A r \in 1..(q - 1) : ~IdPatternAt(s, r)
       IN  <<SubSeq(s, p, p + IdLength - 1)>>
  ELSE <<>>

-----------------------------------------------------------------------------
(* The label patterns, case-insensitive, anchored at both ends of a line *)

Lit(word) == [i \in 1..Len(word) |-> [t |-> "lit", cs |-> {word[i]}]]

WsStar == <<[t |-> "star", cs |-> WhiteSpace]>>

Opt(cs) == <<[t |-> "opt", cs |-> cs]>>

\* \s*[:\-]?\s*  between a label and its capture
Separator == WsStar \o Opt({":", "-"}) \o WsStar

firstNameLabels ==
  << Lit(<<"f", "i", "r", "s", "t">>) \o WsStar \o Lit(<<"n", "a", "m", "e">>),
     Lit(<<"g", "i", "v", "e", "n">>) \o WsStar \o Lit(<<"n", "a", "m", "e">>),
     Lit(<<"u", "n", "a", "n", "g">>) \o WsStar \o Lit(<<"p", "a", "n", "g", "a", "l", "a", "n">>) >>

middleNameLabels ==
  << Lit(<<"m", "i", "d", "d", "l", "e">>) \o WsStar \o Lit(<<"n", "a", "m", "e">>),
     Lit(<<"g", "i", "t", "n", "a", "n", "g">>) \o WsStar \o Lit(<<"p", "a", "n", "g", "a", "l", "a", "n">>),
     Lit(<<"m">>) \o Opt({"."}) \o WsStar \o Lit(<<"i">>) \o Opt({"."}) >>

lastNameLabels ==
  << Lit(<<"l", "a", "s", "t">>) \o WsStar \o Lit(<<"n", "a", "m", "e">>),
     Lit(<<"s", "u", "r", "n", "a", "m", "e">>),
     Lit(<<"a", "p", "e", "l", "y", "i", "d", "o">>) >>

combinedNameLabels == << Lit(<<"n", "a", "m", "e">>), Lit(<<"p", "a", "n", "g", "a", "l", "a", "n">>) >>

\* The positions at which elems[k..] can end when matched from pos, in the
\* order a backtracking matcher tries them (greedy quantifiers first).
RECURSIVE MatchEnds(_, _, _, _), StarEnds(_, _, _, _, _)
MatchEnds(line, pos, elems, k) ==
  IF k > Len(elems) THEN <<pos>>
  ELSE LET e == elems[k]
           here == pos <= Len(line) /\ LowerChar(line[pos]) \in e.cs
       IN  CASE e.t = "lit" ->
                  IF here THEN MatchEnds(line, pos + 1, elems, k + 1) ELSE <<>>
             [] e.t = "opt" ->
                  (IF here THEN MatchEnds(line, pos + 1, elems, k + 1) ELSE <<>>)
                    \o MatchEnds(line, pos, elems, k + 1)
             [] e.t = "star" ->
                  StarEnds(line, pos, elems, k, RunLength(line, pos, e.cs))

StarEnds(line, pos, elems, k, n) ==
  MatchEnds(line, pos + n, elems, k + 1)
    \o (IF n = 0 THEN <<>> ELSE StarEnds(line, pos, elems, k, n - 1))

\* (.+)$ from position s
CaptureAt(line, s) ==
  s <= Len(line) /\ \A i \in s..Len(line) : line[i] \notin LineTerminators

RECURSIVE Flatten(_)
Flatten(ss) == IF ss = <<>> THEN <<>> ELSE Head(ss) \o Flatten(Tail(ss))

\* /^(?:label1|label2|...)\s*[:\-]?\s*(.+)$/i.exec(line): group 1 of the first
\* match in backtracking order, as a sequence of 0 or 1 strings (RegExp.$1
\* right after a successful test)
exec(labels, line) ==
  LET starts == Flatten([a \in 1..Len(labels) |->
                           MatchEnds(line, 1, labels[a] \o Separator, 1)])
      ok == {j \in 1..Len(starts) : CaptureAt(line, starts[j])}
  IN  IF ok = {} THEN <<>>
      ELSE LET j == CHOOSE x \in ok : \A y \in ok : x <= y
           IN  <<SubSeq(line, starts[j], Len(line))>>

test(labels, line) == exec(labels, line) # <<>>

-----------------------------------------------------------------------------
(* extractSilayIdDetails *)

Keyword == <<"s", "i", "l", "a", "y">>

isSilayRaw(text) == includes(text, Keyword)

isSilayOf(text) == includes(toLowerCase(text), Keyword)

idOf(text) == LET match == matchIdPattern(text) IN IF match # <<>> THEN match[1] ELSE <<>>

linesOf(text) == LET ls == split(text, {"\n"}, FALSE) IN [i \in 1..Len(ls) |-> trim(ls[i])]

NoNames == [firstName |-> <<>>, middleName |-> <<>>, lastName |-> <<>>]

FallbackGuardFirstOnly(n) == n.firstName = <<>>

FallbackGuardAlways(n) == TRUE

\* !firstName && !lastName
FallbackGuard(n) == n.firstName = <<>> /\ n.lastName = <<>>

FallbackNamesMiddleFromThree(n, parts) ==
  IF Len(parts) >= 2
  THEN [firstName |-> parts[1],
        middleName |-> IF Len(parts) >= 3 THEN parts[2] ELSE n.middleName,
        lastName |-> parts[Len(parts)]]
  ELSE n

FallbackNamesLastIsSecond(n, parts) ==
  IF Len(parts) >= 2
  THEN [firstName |-> parts[1],
        middleName |-> IF Len(parts) = 3 THEN parts[2] ELSE n.middleName,
        lastName |-> parts[2]]
  ELSE n

\* the body of the fallback branch
FallbackNames(n, parts) ==
  IF Len(parts) >= 2
  THEN [firstName |-> parts[1],
        middleName |-> IF Len(parts) = 3 THEN parts[2] ELSE n.middleName,
        lastName |-> parts[Len(parts)]]
  ELSE n

\* one iteration of the loop over the lines
LineStep(n, line) ==
  LET n1 == IF test(firstNameLabels, line)
            THEN [n EXCEPT !.firstName = trim(exec(firstNameLabels, line)[1])] ELSE n
      n2 == IF test(middleNameLabels, line)
            THEN [n1 EXCEPT !.middleName = trim(exec(middleNameLabels, line)[1])] ELSE n1
      n3 == IF test(lastNameLabels, line)
            THEN [n2 EXCEPT !.lastName = trim(exec(lastNameLabels, line)[1])] ELSE n2
  IN  IF test(combinedNameLabels, line) /\ FallbackGuard(n3)
      THEN FallbackNames(n3, split(trim(exec(combinedNameLabels, line)[1]), WhiteSpace, TRUE))
      ELSE n3

MsgNotSilay == <<"N", "o", "t", " ", "a", " ", "S", "i", "l", "a", "y", " ", "C", "i", "t", "y", " ", "P", "W", "D", " ", "I", "D", ".">>

MsgNoId == <<"S", "i", "l", "a", "y", " ", "d", "o", "c", "u", "m", "e", "n", "t", " ", "d", "e", "t", "e", "c", "t", "e", "d", " ", "b", "u", "t", " ", "n", "o", " ", "I", "D", " ", "n", "u", "m", "b", "e", "r", " ", "f", "o", "u", "n", "d", ".">>

MsgFound(i) == <<"F", "o", "u", "n", "d", " ", "S", "i", "l", "a", "y", " ", "I", "D", " ">> \o i

MessageIgnoresFlag(silay, i) == IF i # <<>> THEN MsgFound(i) ELSE IF silay THEN MsgNoId ELSE MsgNotSilay

MessageSwapped(silay, i) == IF silay THEN MsgNotSilay ELSE IF i # <<>> THEN MsgFound(i) ELSE MsgNoId

Message(silay, i) == IF silay THEN (IF i # <<>> THEN MsgFound(i) ELSE MsgNoId) ELSE MsgNotSilay

-----------------------------------------------------------------------------
(* Inputs *)

MaxLines == 2

LineSet ==
  { <<"S", "I", "L", "A", "Y", " ", "C", "I", "T", "Y", " ", "P", "W", "D", " ", "I", "D">>,
    <<"S", "i", "l", "a", "y", "n", "o", "n", "1", "2", "3", "4", "5", "6", "7", "8", "9", "0", "1", "2", "3">>,
    <<"1", "2", "3", "4", "5", "6", "7", "8", "9", "0", "1", "2", "3">>,
    <<"I", "D", "_", "1", "2", "3", "4", "5", "6", "7", "8", "9", "0", "1", "2", "3">>,
    <<"1", "2", "3", "4", "5", "6", "7", "8", "9", "0", "1", "2">>,
    <<"1", "2", "3", "4", "5", "6", "7", "8", "9", "0", "1", "2", "3", "4">>,
    <<"N", "o", ".", " ", "9", "8", "7", "6", "5", "4", "3", "2", "1", "0", "9", "8", "7", ".">>,
    <<"N", "o", " ", "n", "u", "m", "b", "e", "r", " ", "h", "e", "r", "e">>,
    <<"F", "I", "R", "S", "T", " ", "N", "A", "M", "E", ":", " ", "J", "u", "a", "n">>,
    <<"M", "I", "D", "D", "L", "E", " ", "N", "A", "M", "E", ":", " ", "R", "e", "y", "e", "s">>,
    <<"L", "A", "S", "T", " ", "N", "A", "M", "E", ":", " ", "S", "a", "n", "t", "o", "s">>,
    <<"A", "p", "e", "l", "y", "i", "d", "o", ":", "D", "e", "l", "a", " ", "C", "r", "u", "z", "\r">>,
    <<"N", "A", "M", "E", ":", " ", "J", "u", "a", "n", " ", "M", "i", "g", "u", "e", "l", " ", "D", "e", "l", "a", " ", "C", "r", "u", "z">>,
    <<"N", "A", "M", "E", ":", " ", "A", "n", "a", " ", "L", "i", "m", " ", "G", "o">>,
    <<"P", "A", "N", "G", "A", "L", "A", "N", " ", "-", " ", "A", "n", "a", " ", " ", "G", "o">>,
    <<"N", "a", "m", "e", " ", "A", "n", "a">> }

RECURSIVE Join(_)
Join(ls) == IF Len(ls) = 1 THEN ls[1] ELSE ls[1] \o <<"\n">> \o Join(Tail(ls))

Texts == {Join(ls) : ls \in UNION {[1..n -> LineSet] : n \in 1..MaxLines}}

\* what the OCR provider can answer: the fetch fails, no ParsedResults, a
\* first result without ParsedText, or a first result with text
OcrOutcomes == {"fetchError", "noResults", "undefinedText", "text"}

StoreOutcomes == {"getError", "empty", "found"}

-----------------------------------------------------------------------------
(* POST /api/scan *)

NoResponse == [status |-> 0, error |-> "", message |-> <<>>, idDetails |-> <<>>, member |-> FALSE]

Respond(status, error, message, details, member) ==
  [status |-> status, error |-> error, message |-> message, idDetails |-> details, member |-> member]

Init ==
  /\ pc = "idle"
  /\ rawText = <<>>
  /\ isSilay = FALSE
  /\ id = <<>>
  /\ lines = <<>>
  /\ lineIdx = 0
  /\ firstName = <<>>
  /\ middleName = <<>>
  /\ lastName = <<>>
  /\ idDetails = <<>>
  /\ storeQueries = <<>>
  /\ response = NoResponse

extractionVars == <<rawText, isSilay, id, lines, lineIdx, firstName, middleName, lastName>>

\* the request arrives; without base64Image the handler answers 400
ScanRequest(hasImage) ==
  /\ pc = "idle"
  /\ IF hasImage
     THEN pc' = "awaitOcr" /\ response' = response
     ELSE pc' = "done" /\ response' = Respond(400, "Missing image data", <<>>, <<>>, FALSE)
  /\ UNCHANGED <<extractionVars, idDetails, storeQueries>>

\* the OCR call fails or returns no ParsedResults: the catch block answers 500
OcrFails(outcome) ==
  /\ pc = "awaitOcr"
  /\ outcome \in {"fetchError", "noResults"}
  /\ pc' = "done"
  /\ response' = Respond(500, IF outcome = "noResults" THEN "OCR failed to extract text."
                                                       ELSE "fetch failed", <<>>, <<>>, FALSE)
  /\ UNCHANGED <<extractionVars, idDetails, storeQueries>>

\* the OCR call returns text: extractSilayIdDetails starts
ExtractBegin(text) ==
  /\ pc = "awaitOcr"
  /\ pc' = "extracting"
  /\ rawText' = text
  /\ isSilay' = isSilayOf(text)
  /\ id' = idOf(text)
  /\ lines' = linesOf(text)
  /\ lineIdx' = 1
  /\ firstName' = <<>>
  /\ middleName' = <<>>
  /\ lastName' = <<>>
  /\ UNCHANGED <<idDetails, storeQueries, response>>

\* one iteration of for (const line of lines)
ExtractLine ==
  /\ pc = "extracting"
  /\ lineIdx <= Len(lines)
  /\ LET n == LineStep([firstName |-> firstName, middleName |-> middleName,
                        lastName |-> lastName], lines[lineIdx])
     IN  /\ firstName' = n.firstName
         /\ middleName' = n.middleName
         /\ lastName' = n.lastName
  /\ lineIdx' = lineIdx + 1
  /\ UNCHANGED <<pc, rawText, isSilay, id, lines, idDetails, storeQueries, response>>

\* the return statement of extractSilayIdDetails
ExtractReturn ==
  /\ pc = "extracting"
  /\ lineIdx > Len(lines)
  /\ idDetails' = << [isSilay |-> isSilay, id |-> id, firstName |-> firstName,
                      middleName |-> middleName, lastName |-> lastName,
                      message |-> Message(isSilay, id)] >>
  /\ pc' = "extracted"
  /\ UNCHANGED <<extractionVars, storeQueries, response>>

RejectsOnEmptyId(d) == d.id = <<>>

\* if (!idDetails.isSilay) return 400
Rejects(d) == ~d.isSilay

NotSilayResponse ==
  /\ pc = "extracted"
  /\ Rejects(idDetails[1])
  /\ pc' = "done"
  /\ response' = Respond(400, "", idDetails[1].message, <<>>, FALSE)
  /\ UNCHANGED <<extractionVars, idDetails, storeQueries>>

\* db.collection("EPWD").where("PWD_ID_NO", "==", idDetails.id).get()
QueryStore ==
  /\ pc = "extracted"
  /\ ~Rejects(idDetails[1])
  /\ pc' = "awaitStore"
  /\ storeQueries' = Append(storeQueries, idDetails[1].id)
  /\ UNCHANGED <<extractionVars, idDetails, response>>

StoreReply(outcome) ==
  /\ pc = "awaitStore"
  /\ pc' = "done"
  /\ response' =
       CASE outcome = "empty" -> Respond(404, "", <<"P", "W", "D", " ", "r", "e", "c", "o", "r", "d", " ", "n", "o", "t", " ", "f", "o", "u", "n", "d", ".">>, idDetails, FALSE)
         [] outcome = "found" -> Respond(200, "", <<"R", "e", "c", "o", "r", "d", " ", "f", "o", "u", "n", "d", " ", "a", "n", "d", " ", "v", "e", "r", "i", "f", "i", "e", "d", ".">>, idDetails, TRUE)
         [] outcome = "getError" -> Respond(500, "store failed", <<>>, <<>>, FALSE)
  /\ UNCHANGED <<extractionVars, idDetails, storeQueries>>

\* the next request starts from a fresh handler invocation
NextRequest ==
  /\ pc = "done"
  /\ pc' = "idle"
  /\ rawText' = <<>>
  /\ isSilay' = FALSE
  /\ id' = <<>>
  /\ lines' = <<>>
  /\ lineIdx' = 0
  /\ firstName' = <<>>
  /\ middleName' = <<>>
  /\ lastName' = <<>>
  /\ idDetails' = <<>>
  /\ storeQueries' = <<>>
  /\ response' = NoResponse

Next ==
  \/ \E hasImage \in BOOLEAN : ScanRequest(hasImage)
  \/ \E outcome \in OcrOutcomes : OcrFails(outcome)
  \/ \E text \in Texts : ExtractBegin(text)
  \/ ExtractBegin(<<>>)
  \/ ExtractLine
  \/ ExtractReturn
  \/ NotSilayResponse
  \/ QueryStore
  \/ \E outcome \in StoreOutcomes : StoreReply(outcome)
  \/ NextRequest

Spec == Init /\ [][Next]_vars

-----------------------------------------------------------------------------
(* Properties.  The definitions of this section state what is expected of   *)
(* the result from the input text alone; none of them is used by an action. *)

Extracted == idDetails # <<>>

result == idDetails[1]

\* a run of exactly 13 digits at position p of s, whose neighbours (if any)
\* are outside the set bounding
BoundedRun(s, p, bounding) ==
  /\ p >= 1
  /\ p + 12 <= Len(s)
  /\ \A i \in p..(p + 12) : s[i] \in Digits
  /\ p = 1 \/ s[p - 1] \notin bounding
  /\ p + 13 > Len(s) \/ s[p + 13] \notin bounding

FirstBoundedRun(s, bounding) ==
  IF \E p \in 1..Len(s) : BoundedRun(s, p, bounding)
  THEN LET p == CHOOSE q \in 1..Len(s) :
                  /\ BoundedRun(s, q, bounding)
                  /\ \A r \in 1..(q - 1) : ~BoundedRun(s, r, bounding)
       IN  SubSeq(s, p, p + 12)
  ELSE <<>>

\* C1 as stated: the identifier is the first run of exactly 13 digits bounded
\* on each side by a non-digit or a string edge, and empty when there is none.
C1_FirstDigitBoundedRun ==
  Extracted => result.id = FirstBoundedRun(rawText, Digits)

\* C1 as amended: the identifier is the first run of exactly 13 digits bounded
\* on each side by a non-word character (not a letter, digit or underscore) or
\* a string edge, and empty when there is none; runs of 12 or 14 digits yield
\* no identifier.
C1_FirstWordBoundedRun ==
  Extracted => result.id = FirstBoundedRun(rawText, WordChars)

C1_Witness ==
  /\ Extracted
  /\ \E p, q \in 1..Len(rawText) :
       /\ p < q
       /\ BoundedRun(rawText, p, WordChars)
       /\ BoundedRun(rawText, q, WordChars)
       /\ SubSeq(rawText, p, p + 12) # SubSeq(rawText, q, q + 12)
       /\ result.id = SubSeq(rawText, p, p + 12)

\* the keyword occurs in s, letter case ignored
KeywordOccurs(s) ==
  \E i \in 1..Len(s) :
    /\ i + Len(Keyword) - 1 <= Len(s)
    /\ \A k \in 1..Len(Keyword) : LowerChar(s[i + k - 1]) = Keyword[k]

\* C2: the message variant is selected by keyword presence and identifier
\* non-emptiness alone: keyword absent gives the "not a jurisdiction document"
\* variant, keyword present with an identifier the "found" variant holding that
\* identifier, keyword present without one the "no identifier found" variant.
C2_MessageVariant ==
  Extracted =>
    result.message = IF ~KeywordOccurs(rawText) THEN MsgNotSilay
                     ELSE IF result.id # <<>> THEN MsgFound(result.id)
                     ELSE MsgNoId

C2_Witness ==
  /\ Extracted
  /\ KeywordOccurs(rawText)
  /\ result.id = <<>>
  /\ result.firstName # <<>>
  /\ result.message = MsgNoId

ScenarioA == <<"S", "I", "L", "A", "Y", " ", "C", "I", "T", "Y", " ", "P", "W", "D", " ", "I", "D", "\n", "1", "2", "3", "4", "5", "6", "7", "8", "9", "0", "1", "2", "3">>

ScenarioD == <<"N", "A", "M", "E", ":", " ", "J", "u", "a", "n", " ", "M", "i", "g", "u", "e", "l", " ", "D", "e", "l", "a", " ", "C", "r", "u", "z">>

\* C4 as stated: scenario D yields Juan / Miguel / Dela Cruz.
C4_ScenarioDThreeNames ==
  (Extracted /\ rawText = ScenarioD) =>
    /\ result.firstName = <<"J", "u", "a", "n">>
    /\ result.middleName = <<"M", "i", "g", "u", "e", "l">>
    /\ result.lastName = <<"D", "e", "l", "a", " ", "C", "r", "u", "z">>

\* C4 as amended: scenario D has four tokens, so the fallback sets firstName to
\* the first token "Juan" and lastName to the last token "Cruz" and leaves
\* middleName empty.
C4_ScenarioDFirstAndLastToken ==
  (Extracted /\ rawText = ScenarioD) =>
    /\ result.firstName = <<"J", "u", "a", "n">>
    /\ result.middleName = <<>>
    /\ result.lastName = <<"C", "r", "u", "z">>

C4_Witness == Extracted /\ rawText = ScenarioD /\ result.firstName # <<>>

NoDigit(s) == \A i \in 1..Len(s) : s[i] \notin Digits

NamesEmpty == result.firstName = <<>> /\ result.middleName = <<>> /\ result.lastName = <<>>

NoLabelLine ==
  \A k \in 1..Len(lines) :
    /\ ~test(firstNameLabels, lines[k])
    /\ ~test(middleNameLabels, lines[k])
    /\ ~test(lastNameLabels, lines[k])
    /\ ~test(combinedNameLabels, lines[k])

\* C5 as stated: a text without the keyword and without any digit yields a
\* false flag, an empty identifier, empty names and the "not a jurisdiction
\* document" message.
C5_NothingFound ==
  (Extracted /\ ~KeywordOccurs(rawText) /\ NoDigit(rawText)) =>
    /\ ~result.isSilay
    /\ result.id = <<>>
    /\ NamesEmpty
    /\ result.message = MsgNotSilay

\* C5 as amended: a text without the keyword and without any digit yields a
\* false flag, an empty identifier and the "not a jurisdiction document"
\* message; the names are empty when no line matches a name label pattern.
C5_NoFlagNoIdentifier ==
  (Extracted /\ ~KeywordOccurs(rawText) /\ NoDigit(rawText)) =>
    /\ ~result.isSilay
    /\ result.id = <<>>
    /\ result.message = MsgNotSilay
    /\ NoLabelLine => NamesEmpty

C5_Witness ==
  /\ Extracted
  /\ rawText # <<>>
  /\ ~KeywordOccurs(rawText)
  /\ NoDigit(rawText)
  /\ NoLabelLine
  /\ NamesEmpty

\* the last line matching a label pattern, 0 when there is none
LastMatch(labels) ==
  IF \E k \in 1..Len(lines) : test(labels, lines[k])
  THEN CHOOSE k \in 1..Len(lines) :
         /\ test(labels, lines[k])
         /\ \A j \in (k + 1)..Len(lines) : ~test(labels, lines[j])
  ELSE 0

ExplicitValue(labels) == trim(exec(labels, lines[LastMatch(labels)])[1])

\* the whitespace-separated tokens of s
TokenStarts(s) ==
  {i \in 1..Len(s) : s[i] \notin WhiteSpace /\ (i = 1 \/ s[i - 1] \in WhiteSpace)}

TokenCount(s) == Cardinality(TokenStarts(s))

Token(s, n) ==
  LET i == CHOOSE x \in TokenStarts(s) :
             Cardinality({y \in TokenStarts(s) : y < x}) = n - 1
  IN  SubSeq(s, i, i + RunLength(s, i, Range(s) \ WhiteSpace) - 1)

CombinedValue(k) == exec(combinedNameLabels, lines[k])[1]

\* line k is a combined-name line with at least two tokens
Assigns(k) ==
  test(combinedNameLabels, lines[k]) /\ TokenCount(CombinedValue(k)) >= 2

\* line k is the combined-name line whose tokens the fallback takes: no explicit
\* first- or last-name line up to it, no assigning combined-name line before it
FiredAt(k) ==
  /\ Assigns(k)
  /\ \A j \in 1..k : ~test(firstNameLabels, lines[j]) /\ ~test(lastNameLabels, lines[j])
  /\ \A j \in 1..(k - 1) : ~Assigns(j)

FallbackKeeps ==
  \A k \in 1..Len(lines) :
    FiredAt(k) =>
      /\ LastMatch(firstNameLabels) = 0 => result.firstName = Token(CombinedValue(k), 1)
      /\ LastMatch(lastNameLabels) = 0 =>
           result.lastName = Token(CombinedValue(k), TokenCount(CombinedValue(k)))
      /\ (LastMatch(middleNameLabels) = 0 /\ TokenCount(CombinedValue(k)) = 3) =>
           result.middleName = Token(CombinedValue(k), 2)

\* C6 as stated: each name field with an explicit label line ends as the
\* trimmed capture of the last such line, whatever combined-name lines there
\* are; a field without one keeps what a fired fallback gave it.
C6_LastExplicitWins ==
  Extracted =>
    /\ LastMatch(firstNameLabels) > 0 => result.firstName = ExplicitValue(firstNameLabels)
    /\ LastMatch(middleNameLabels) > 0 => result.middleName = ExplicitValue(middleNameLabels)
    /\ LastMatch(lastNameLabels) > 0 => result.lastName = ExplicitValue(lastNameLabels)
    /\ FallbackKeeps

\* C6 as amended: firstName and lastName with an explicit label line end as the
\* trimmed capture of the last such line; middleName does too, unless a
\* combined-name line at or after that line fires with exactly three tokens,
\* and then it is that line's middle token; a field without an explicit label
\* line keeps what a fired fallback gave it.
C6_LastExplicitWinsButMiddle ==
  Extracted =>
    /\ LastMatch(firstNameLabels) > 0 => result.firstName = ExplicitValue(firstNameLabels)
    /\ LastMatch(lastNameLabels) > 0 => result.lastName = ExplicitValue(lastNameLabels)
    /\ LastMatch(middleNameLabels) > 0 =>
         IF \E k \in LastMatch(middleNameLabels)..Len(lines) :
              FiredAt(k) /\ TokenCount(CombinedValue(k)) = 3
         THEN \E k \in LastMatch(middleNameLabels)..Len(lines) :
                /\ FiredAt(k)
                /\ TokenCount(CombinedValue(k)) = 3
                /\ result.middleName = Token(CombinedValue(k), 2)
         ELSE result.middleName = ExplicitValue(middleNameLabels)
    /\ FallbackKeeps

\* a combined-name line first, an explicit last-name line after it
C6_Witness ==
  /\ Extracted
  /\ Len(lines) = 2
  /\ FiredAt(1)
  /\ LastMatch(lastNameLabels) = 2
  /\ result.lastName = ExplicitValue(lastNameLabels)
  /\ result.firstName = Token(CombinedValue(1), 1)

AtLine == pc = "extracting" /\ lineIdx <= Len(lines)

\* C7: a combined-name line processed while firstName or lastName is already
\* non-empty leaves firstName, middleName and lastName unchanged.
C7_FallbackOnlyWhenBothEmpty ==
  [][(AtLine /\ test(combinedNameLabels, lines[lineIdx])
        /\ (firstName # <<>> \/ lastName # <<>>))
       => UNCHANGED names]_vars

\* an explicit last-name line, then a combined-name line that changed nothing
C7_Witness ==
  /\ pc = "extracting"
  /\ lineIdx = 3
  /\ test(lastNameLabels, lines[1])
  /\ Assigns(2)
  /\ firstName = <<>>
  /\ lastName = ExplicitValue(lastNameLabels)

\* C8: when the fallback fires on a line, with at least two tokens firstName
\* becomes the first and lastName the last token, middleName becomes the middle
\* token only when there are exactly three and is otherwise unchanged; with a
\* single token no name field changes.
C8_FallbackTokens ==
  [][(AtLine /\ test(combinedNameLabels, lines[lineIdx])
        /\ firstName = <<>> /\ lastName = <<>>)
       => LET v == CombinedValue(lineIdx)
              n == TokenCount(v)
          IN  IF n >= 2
              THEN /\ firstName' = Token(v, 1)
                   /\ lastName' = Token(v, n)
                   /\ middleName' = IF n = 3 THEN Token(v, 2) ELSE middleName
              ELSE UNCHANGED names]_vars

\* a three-token combined-name line has just been taken
C8_Witness ==
  /\ pc = "extracting"
  /\ lineIdx = 2
  /\ FiredAt(1)
  /\ TokenCount(CombinedValue(1)) = 3
  /\ firstName = Token(CombinedValue(1), 1)
  /\ middleName = Token(CombinedValue(1), 2)
  /\ lastName = Token(CombinedValue(1), 3)

\* C9: the record store is queried if and only if the OCR returned text and the
\* extraction result's flag is true, and only after the extraction returned;
\* with a false flag the handler answers 400 with the extraction's message and
\* does not query.
C9_QueryIffFlag ==
  /\ storeQueries # <<>> => (Extracted /\ result.isSilay /\ pc \in {"awaitStore", "done"})
  /\ (pc \in {"awaitStore", "done"} /\ Extracted /\ result.isSilay) => Len(storeQueries) = 1
  /\ (pc = "done" /\ Extracted /\ ~result.isSilay) =>
       /\ storeQueries = <<>>
       /\ response.status = 400
       /\ response.message = result.message

C9_Witness ==
  /\ pc = "done"
  /\ Extracted
  /\ ~result.isSilay
  /\ result.id # <<>>
  /\ response.status = 400
  /\ storeQueries = <<>>

\* C10: every identifier the handler queries the record store with is a string
\* of exactly 13 digits.
C10_QueryWithThirteenDigits ==
  \A q \in 1..Len(storeQueries) :
    /\ Len(storeQueries[q]) = 13
    /\ \A i \in 1..Len(storeQueries[q]) : storeQueries[q][i] \in Digits

====
